---------------------------- MODULE Spec2Model ----------------------------
(* LemmeTalk voice assistant: the turn loop of voice_loop.py and the        *)
(* workflow registry and router of workflows/__init__.py.                   *)
(*                                                                          *)
(* Text is a sequence of one-character strings, so that the regular         *)
(* expression substitutions of clean_text_for_tts, str.strip, str.lower and *)
(* the substring test of can_handle are computed character by character.    *)
EXTENDS Integers, Sequences, FiniteSets, TLC

(***************************************************************************)
(* Bounds of the model                                                     *)
(***************************************************************************)
\* longest input text drawn for clean_text_for_tts
MaxLen == 4

\* longest complexity expression of the drawn list items
MaxExpr == 2

\* utterances processed in a run: recording stops after MaxTurns exchanges
\* (two turns each) have been appended to the history
MaxTurns == 12

(***************************************************************************)
(* Text helpers                                                            *)
(***************************************************************************)
\* characters matched by \d
Digits == {"0", "1", "2", "3", "4", "5", "6", "7", "8", "9"}

\* characters matched by \s (and removed by str.strip)
Whitespace == {" ", "\n"}

\* the backquote character of the code-formatting pattern (a TLA+ string
\* cannot hold a backquote, so it is written as a caret)
Backquote == "^"

\* the replacement text "big O of "
BigOOf == <<"b", "i", "g", " ", "O", " ", "o", "f", " ">>

\* the first index >= i of s that holds no character of cs
RECURSIVE SpanEnd(_, _, _)
SpanEnd(cs, s, i) ==
    IF i <= Len(s) /\ s[i] \in cs THEN SpanEnd(cs, s, i + 1) ELSE i

\* the first index >= i of s that holds a character of cs (Len(s)+1 if none)
RECURSIVE SpanEndNot(_, _, _)
SpanEndNot(cs, s, i) ==
    IF i <= Len(s) /\ s[i] \notin cs THEN SpanEndNot(cs, s, i + 1) ELSE i

\* s has d at index i
StartsWith(s, i, d) ==
    /\ i >= 1
    /\ i + Len(d) - 1 <= Len(s)
    /\ SubSeq(s, i, i + Len(d) - 1) = d

\* a substitution that leaves the list markers in place
SubMarkers_Off(s, i) == SubSeq(s, i, Len(s))

\* re.sub(r'\d+\.\s*', '', text), from index i on
RECURSIVE SubMarkers(_, _)
SubMarkers(s, i) ==
    IF i > Len(s) THEN <<>>
    ELSE IF s[i] \in Digits
         THEN LET j == SpanEnd(Digits, s, i)
              IN  IF j <= Len(s) /\ s[j] = "."
                  THEN SubMarkers(s, SpanEnd(Whitespace, s, j + 1))
                  ELSE <<s[i]>> \o SubMarkers(s, i + 1)
         ELSE <<s[i]>> \o SubMarkers(s, i + 1)

\* re.sub(d + r'([^x]+)' + d, r'\1', text) for a delimiter d made of the
\* character x, from index i on
RECURSIVE SubDelim(_, _, _, _)
SubDelim(d, x, s, i) ==
    IF i > Len(s) THEN <<>>
    ELSE LET a == i + Len(d)
             b == SpanEndNot({x}, s, a)
         IN  IF StartsWith(s, i, d) /\ b > a /\ StartsWith(s, b, d)
             THEN SubSeq(s, a, b - 1) \o SubDelim(d, x, s, b + Len(d))
             ELSE <<s[i]>> \o SubDelim(d, x, s, i + 1)

\* re.sub(r'O\(([^)]+)\)', r'big O of \1', text), from index i on
RECURSIVE SubBigO(_, _)
SubBigO(s, i) ==
    IF i > Len(s) THEN <<>>
    ELSE LET a == i + 2
             b == SpanEndNot({")"}, s, a)
         IN  IF StartsWith(s, i, <<"O", "(">>) /\ b > a /\ b <= Len(s)
             THEN BigOOf \o SubSeq(s, a, b - 1) \o SubBigO(s, b + 1)
             ELSE <<s[i]>> \o SubBigO(s, i + 1)

\* re.sub(r'O\(', 'big O of ', text), from index i on
RECURSIVE SubBareO(_, _)
SubBareO(s, i) ==
    IF i > Len(s) THEN <<>>
    ELSE IF StartsWith(s, i, <<"O", "(">>)
         THEN BigOOf \o SubBareO(s, i + 2)
         ELSE <<s[i]>> \o SubBareO(s, i + 1)

\* re.sub(cs-run, ' ', text) for a run of characters of cs, from index i on
RECURSIVE SubRuns(_, _, _)
SubRuns(cs, s, i) ==
    IF i > Len(s) THEN <<>>
    ELSE IF s[i] \in cs
         THEN <<" ">> \o SubRuns(cs, s, SpanEnd(cs, s, i))
         ELSE <<s[i]>> \o SubRuns(cs, s, i + 1)

\* the last index <= i of s that holds no whitespace (0 if none)
RECURSIVE LastNonSpace(_, _)
LastNonSpace(s, i) ==
    IF i >= 1 /\ s[i] \in Whitespace THEN LastNonSpace(s, i - 1) ELSE i

\* str.strip()
Strip(s) ==
    SubSeq(s, SpanEnd(Whitespace, s, 1), LastNonSpace(s, Len(s)))

\* clean_text_for_tts(text)
clean_text_for_tts(text) ==
    LET t1 == SubMarkers(text, 1)
        t2 == SubDelim(<<"*", "*">>, "*", t1, 1)
        t3 == SubDelim(<<"*">>, "*", t2, 1)
        t4 == SubDelim(<<Backquote>>, Backquote, t3, 1)
        t5 == SubBigO(t4, 1)
        t6 == SubBareO(t5, 1)
        t7 == SubRuns({"\n"}, t6, 1)
        t8 == SubRuns(Whitespace, t7, 1)
    IN  Strip(t8)

(***************************************************************************)
(* State                                                                   *)
(***************************************************************************)
VARIABLES
    cleanIn,     \* the text handed to clean_text_for_tts
    cleanPc,     \* "in": not yet called; "once": called once; "twice"
    cleanOut1,   \* clean_text_for_tts(cleanIn)
    cleanOut2,   \* clean_text_for_tts(clean_text_for_tts(cleanIn))
    getName,     \* the name handed to get_workflow
    getPc,       \* "start": not loaded; "loaded"; "returned": called
    getOut,      \* what get_workflow returned
    discovered,            \* the workflow modules the directory scan finds
    workflows,             \* WorkflowManager.workflows, in insertion order
    conversation_history,  \* voice_loop.conversation_history
    appended,              \* every turn ever appended to it, in order
    pc,                    \* where the program stands
    user_text,             \* the utterance of the turn in progress
    request,               \* the completion request last issued in this turn
    classification,        \* how the classification call ended
    workflow,              \* what get_workflow_for_input returned
    deps,                  \* the WorkflowDependencies given to the handler
    handler,               \* how the workflow's handler ended
    completion,            \* the content the chat completion returned
    result,                \* the WorkflowOutput execute returned
    response,              \* the response process_user_input returns
    spoken,                \* what speak was last given, and the engine used
    exit,                  \* why the turn loop ended
    turns                  \* turns completed, counted up to MaxVaried

cleanVars == <<cleanIn, cleanPc, cleanOut1, cleanOut2>>

getVars == <<getName, getPc, getOut>>

programVars ==
    <<discovered, workflows, conversation_history, appended, pc, user_text,
      request,
      classification, workflow, deps, handler, completion, result,
      response, spoken, exit, turns>>

vars ==
    <<cleanIn, cleanPc, cleanOut1, cleanOut2, getName, getPc, getOut,
      discovered, workflows,
      conversation_history, pc, user_text, request, classification,
      workflow, deps, handler, completion, result, response, spoken,
      exit, turns>>

\* values of the turn's locals while they hold nothing
NoRequest == [kind |-> "none"]
NoClassification == [kind |-> "none"]
NoHandler == [kind |-> "none"]
NoDeps == [user_id |-> "none"]
NoCompletion == <<"none">>
NoResult == <<>>
NotSpoken == [engine |-> "none"]

\* the program is not running (the state of the program's variables while
\* a function is exercised on its own)
ProgramOff ==
    /\ discovered = <<>>
    /\ workflows = <<>>
    /\ conversation_history = <<>>
    /\ appended = <<>>
    /\ pc = "off"
    /\ user_text = <<>>
    /\ request = NoRequest
    /\ classification = NoClassification
    /\ workflow = <<>>
    /\ deps = NoDeps
    /\ handler = NoHandler
    /\ completion = NoCompletion
    /\ result = NoResult
    /\ response = <<>>
    /\ spoken = NotSpoken
    /\ exit = "none"
    /\ turns = 0

\* clean_text_for_tts is not being exercised on its own
CleanOff ==
    /\ cleanIn = <<>>
    /\ cleanPc = "off"
    /\ cleanOut1 = <<>>
    /\ cleanOut2 = <<>>

\* get_workflow has returned nothing yet
NoOutput == [kind |-> "none"]

\* get_workflow is not being exercised on its own
GetOff ==
    /\ getName = ""
    /\ getPc = "off"
    /\ getOut = NoOutput

(***************************************************************************)
(* Texts of the program and of the drawn inputs                            *)
(***************************************************************************)
\* "Sorry, I encountered an error: " (BaseWorkflow.execute)
SorryPrefix ==
    <<"S", "o", "r", "r", "y", ",", " ", "I", " ", "e", "n", "c", "o",
      "u", "n", "t", "e", "r", "e", "d", " ", "a", "n", " ", "e", "r",
      "r", "o", "r", ":", " ">>

\* "This workflow is not properly configured." (BaseWorkflow.execute)
NotConfiguredText ==
    <<"T", "h", "i", "s", " ", "w", "o", "r", "k", "f", "l", "o", "w",
      " ", "i", "s", " ", "n", "o", "t", " ", "p", "r", "o", "p", "e", "r",
      "l", "y", " ", "c", "o", "n", "f", "i", "g", "u", "r", "e", "d",
      ".">>

\* "I didn't catch that." (main)
DidntCatchText ==
    <<"I", " ", "d", "i", "d", "n", "'", "t", " ", "c", "a", "t", "c",
      "h", " ", "t", "h", "a", "t", ".">>

\* trigger keywords of the workflows
KwWeather == <<"w", "e", "a", "t", "h", "e", "r">>
KwForecast == <<"f", "o", "r", "e", "c", "a", "s", "t">>
KwAdd == <<"a", "d", "d">>
KwBuy == <<"b", "u", "y">>
KwNews == <<"n", "e", "w", "s">>

\* utterances: "Weather", "Add news", "a joke"
UttWeather == <<"W", "e", "a", "t", "h", "e", "r">>
UttAddNews == <<"A", "d", "d", " ", "n", "e", "w", "s">>
UttJoke == <<"a", " ", "j", "o", "k", "e">>

Utterances == {UttWeather, UttAddNews, UttJoke}

\* raw replies of a handler or of the chat completion: "Sure." and
\* "1. *Sunny*"
ReplySure == <<"S", "u", "r", "e", ".">>
ReplyFormatted == <<"1", ".", " ", "*", "S", "u", "n", "n", "y", "*">>

Replies == {ReplySure, ReplyFormatted}

\* a completion with whitespace around it: " Sure.\n"
ReplyPadded == <<" ">> \o ReplySure \o <<"\n">>

\* raw contents of the chat completion
ChatReplies == Replies \cup {ReplyPadded}

\* str(e) of an exception a handler raises: "timeout", a message of two
\* lines and "Error 429. Slow"
CauseTimeout == <<"t", "i", "m", "e", "o", "u", "t">>
CauseTwoLines == <<"b", "a", "d", "\n", "k", "e", "y">>
CauseRateLimit ==
    <<"E", "r", "r", "o", "r", " ", "4", "2", "9", ".", " ", "S", "l",
      "o", "w">>

Causes == {CauseTimeout, CauseTwoLines, CauseRateLimit}

\* the utterance and the raw reply of the turns after the first MaxVaried
DefaultUtterance == UttWeather
DefaultReply == ReplySure

(***************************************************************************)
(* str.lower and the substring test                                        *)
(***************************************************************************)
UpperCase ==
    <<"A", "B", "C", "D", "E", "F", "G", "H", "I", "J", "K", "L", "M",
      "N", "O", "P", "Q", "R", "S", "T", "U", "V", "W", "X", "Y", "Z">>

LowerCase ==
    <<"a", "b", "c", "d", "e", "f", "g", "h", "i", "j", "k", "l", "m",
      "n", "o", "p", "q", "r", "s", "t", "u", "v", "w", "x", "y", "z">>

LowerChar(c) ==
    IF \E i \in 1..Len(UpperCase) : UpperCase[i] = c
    THEN LowerCase[CHOOSE i \in 1..Len(UpperCase) : UpperCase[i] = c]
    ELSE c

\* str.lower()
Lower(s) == [i \in 1..Len(s) |-> LowerChar(s[i])]

\* t in s (Python's substring test)
Contains(s, t) ==
    \E i \in 1..(Len(s) - Len(t) + 1) : SubSeq(s, i, i + Len(t) - 1) = t

(***************************************************************************)
(* Workflow classes and the registry                                       *)
(***************************************************************************)
\* A workflow class of a *_workflow.py module: the name its instances get
\* (the class name), its triggers, whether _setup_agent sets an agent and
\* whether constructing it raises.
WorkflowClass(name, module, triggers, agent, raises) ==
    [name |-> name, module |-> module, triggers |-> triggers,
     agent |-> agent, raises |-> raises]

NewsClass ==
    WorkflowClass("NewsWorkflow", "news_workflow", <<KwNews>>, TRUE, FALSE)

ShoppingClass ==
    WorkflowClass("ShoppingWorkflow", "shopping_workflow",
                  <<KwAdd, KwBuy>>, TRUE, FALSE)

WeatherClass ==
    WorkflowClass("WeatherWorkflow", "weather_workflow",
                  <<KwWeather, KwForecast>>, TRUE, FALSE)

\* a second class named WeatherWorkflow, in another module
OtherWeatherClass ==
    WorkflowClass("WeatherWorkflow", "zz_workflow", <<KwForecast>>, TRUE,
                  FALSE)

\* a subclass that keeps BaseWorkflow's _setup_agent and triggers
PlainClass ==
    WorkflowClass("PlainWorkflow", "plain_workflow", <<>>, FALSE, FALSE)

\* a class whose constructor raises
BrokenClass ==
    WorkflowClass("BrokenWorkflow", "broken_workflow", <<>>, TRUE, TRUE)

\* What os.listdir and dir(module) yield: the modules in listing order, each
\* with its workflow classes in attribute order.
Scans ==
    { <<>>,
      << <<NewsClass>>, <<ShoppingClass>>, <<WeatherClass>> >>,
      << <<WeatherClass>>, <<ShoppingClass>> >>,
      << <<WeatherClass>>, <<ShoppingClass>>, <<OtherWeatherClass>> >>,
      << <<BrokenClass, NewsClass>>, <<PlainClass>>, <<ShoppingClass>> >> }

\* BaseWorkflow.__init__: the instance of a class
Instance(cls) ==
    [name |-> cls.name, module |-> cls.module, triggers |-> cls.triggers,
     agent |-> cls.agent]

\* self.workflows[workflow.name] = workflow on a dict kept in insertion
\* order: a key already present keeps its place and takes the new value
Register(ws, w) ==
    IF \E i \in 1..Len(ws) : ws[i].name = w.name
    THEN [i \in 1..Len(ws) |-> IF ws[i].name = w.name THEN w ELSE ws[i]]
    ELSE Append(ws, w)

\* the classes of one module, from the k-th on: a constructor that raises
\* ends the module (the except clause of _load_workflows)
RECURSIVE LoadModule(_, _, _)
LoadModule(ws, classes, k) ==
    IF k > Len(classes) \/ classes[k].raises THEN ws
    ELSE LoadModule(Register(ws, Instance(classes[k])), classes, k + 1)

\* WorkflowManager._load_workflows, from the m-th module on
RECURSIVE LoadFrom(_, _, _)
LoadFrom(ws, modules, m) ==
    IF m > Len(modules) THEN ws
    ELSE LoadFrom(LoadModule(ws, modules[m], 1), modules, m + 1)

_load_workflows(modules) == LoadFrom(<<>>, modules, 1)

(***************************************************************************)
(* Routing: WorkflowManager.get_workflow_for_input                         *)
(***************************************************************************)
\* number of turns of the history given to the classification request
ContextTurns == 4

\* the last n elements of a list: lst[-n:]
LastN(lst, n) ==
    IF Len(lst) <= n THEN lst ELSE SubSeq(lst, Len(lst) - n + 1, Len(lst))

\* a keyword test that lowers the triggers only
can_handle_CaseSensitive(w, user_input) ==
    \E k \in 1..Len(w.triggers) : Contains(user_input, Lower(w.triggers[k]))

\* BaseWorkflow.can_handle
can_handle(w, user_input) ==
    \E k \in 1..Len(w.triggers) :
        Contains(Lower(user_input), Lower(w.triggers[k]))

\* the keyword fallback loop: the first workflow that can handle the input
RECURSIVE KeywordFrom(_, _, _)
KeywordFrom(ws, user_input, i) ==
    IF i > Len(ws) THEN <<>>
    ELSE IF can_handle(ws[i], user_input) THEN <<ws[i]>>
         ELSE KeywordFrom(ws, user_input, i + 1)

KeywordFallback(ws, user_input) == KeywordFrom(ws, user_input, 1)

\* a lookup that trusts the name it is given
LookupUnchecked(ws, selected) ==
    <<[name |-> selected, module |-> "?", triggers |-> <<>>, agent |-> TRUE]>>

\* the lookup loop: the first workflow named selected
RECURSIVE LookupFrom(_, _, _)
LookupFrom(ws, selected, i) ==
    IF i > Len(ws) THEN <<>>
    ELSE IF ws[i].name = selected THEN <<ws[i]>>
         ELSE LookupFrom(ws, selected, i + 1)

Lookup(ws, selected) == LookupFrom(ws, selected, 1)

\* The content of a classification answer is a sequence of words and
\* whitespace characters; content.strip() drops the whitespace at its ends.
AnswerWords ==
    {"NewsWorkflow", "ShoppingWorkflow", "WeatherWorkflow", "PlainWorkflow",
     "general", "weather"}

AnswerContents ==
    {<<w>> : w \in AnswerWords}
        \cup {<<" ", "WeatherWorkflow", "\n">>, <<"Shopping", " ", "Workflow">>}

\* how the classification call can end: an answer with a content, an answer
\* whose content is None, or an exception (an API or connection error, or
\* the client's request timeout when no answer comes)
ClassifyOutcomes ==
    {[kind |-> "answer", content |-> c] : c \in AnswerContents}
        \cup {[kind |-> "none_content"], [kind |-> "raise"]}

\* lines 166-176: the answer parsed
ParseAnswer(ws, content) ==
    LET selected_workflow == Strip(content)
    IN  IF selected_workflow = <<"general">> THEN <<>>
        ELSE IF Len(selected_workflow) = 1
             THEN Lookup(ws, selected_workflow[1])
             ELSE <<>>

\* a router that tries the keywords when the answer names no workflow
RouteDecision_KeywordsToo(ws, user_input, outcome) ==
    IF outcome.kind = "answer" /\ ParseAnswer(ws, outcome.content) # <<>>
    THEN ParseAnswer(ws, outcome.content)
    ELSE KeywordFallback(ws, user_input)

\* lines 155-184: the try statement around the classification call
RouteDecision(ws, user_input, outcome) ==
    IF outcome.kind = "answer"
    THEN ParseAnswer(ws, outcome.content)
    ELSE KeywordFallback(ws, user_input)

\* the role of a turn as text
RoleText(role) ==
    IF role = "user" THEN <<"u", "s", "e", "r">>
    ELSE IF role = "assistant"
         THEN <<"a", "s", "s", "i", "s", "t", "a", "n", "t">>
         ELSE <<"s", "y", "s", "t", "e", "m">>

\* f"{role}: {content}\n"
RenderLine(msg) == RoleText(msg.role) \o <<":", " ">> \o msg.content \o <<"\n">>

\* the lines of the messages from the i-th on, one after the other
RECURSIVE RenderFrom(_, _)
RenderFrom(msgs, i) ==
    IF i > Len(msgs) THEN <<>>
    ELSE RenderLine(msgs[i]) \o RenderFrom(msgs, i + 1)

\* "\nRecent conversation context:\n" (the sentence is one element)
ContextHeader == <<"\n", "Recent conversation context:", "\n">>

\* a context that renders every turn of the history
ContextLines_Whole(history) ==
    IF history = <<>> THEN <<>>
    ELSE ContextHeader \o RenderFrom(history, 1)

\* lines 127-135: the context of the classification prompt
ContextLines(history) ==
    IF history = <<>> THEN <<>>
    ELSE LET recent_messages == LastN(history, ContextTurns)
         IN  ContextHeader \o RenderFrom(recent_messages, 1)

\* lines 113-119 and 155-164: the classification request
ClassificationRequest(ws, user_input, history) ==
    [kind |-> "classify",
     options |-> [i \in 1..Len(ws) |->
                     [name |-> ws[i].name, triggers |-> ws[i].triggers]],
     context |-> ContextLines(history),
     user |-> user_input]

(***************************************************************************)
(* Executing a workflow: BaseWorkflow.execute                              *)
(***************************************************************************)
\* the list object bound to voice_loop.conversation_history (line 100)
SharedList == [object |-> "conversation_history"]

\* the list a reference leads to: the shared list, or a copy with its value
ListValue(ref) ==
    IF ref = SharedList THEN conversation_history ELSE ref.value

\* dependencies that carry a copy of the list
WorkflowDependencies_Copy(user_id, history_ref) ==
    [user_id |-> user_id,
     conversation_history |->
         [object |-> "copy", value |-> ListValue(history_ref)]]

\* WorkflowDependencies(user_id=..., conversation_history=...): the field
\* holds the reference it is given (__post_init__ replaces None only)
WorkflowDependencies(user_id, history_ref) ==
    [user_id |-> user_id, conversation_history |-> history_ref]

WorkflowOutput(resp, success, workflow_name) ==
    [response |-> resp, success |-> success, workflow_name |-> workflow_name]

\* how agent.run can end: it returns an output, or it raises (its own
\* failure or one of a tool, such as the storage)
HandlerOutcomes(free) ==
    IF free
    THEN {[kind |-> "return", response |-> r, success |-> b] :
              r \in Replies, b \in BOOLEAN}
             \cup {[kind |-> "raise", cause |-> c] : c \in Causes}
    ELSE {[kind |-> "return", response |-> DefaultReply, success |-> TRUE]}

\* the handler of a workflow without an agent is not run
NotRun == [kind |-> "not_run"]

\* an execute that hands the cause on as an ordinary response
execute_RawCause(w, h) ==
    IF ~w.agent THEN WorkflowOutput(NotConfiguredText, FALSE, w.name)
    ELSE IF h.kind = "return"
         THEN WorkflowOutput(h.response, h.success, w.name)
         ELSE WorkflowOutput(h.cause, TRUE, w.name)

\* BaseWorkflow.execute
execute(w, h) ==
    IF ~w.agent THEN WorkflowOutput(NotConfiguredText, FALSE, w.name)
    ELSE IF h.kind = "return"
         THEN WorkflowOutput(h.response, h.success, w.name)
         ELSE WorkflowOutput(SorryPrefix \o h.cause, FALSE, w.name)

(***************************************************************************)
(* The turn loop: main, process_user_input, general_chat_with_context      *)
(***************************************************************************)
\* turns whose utterance, replies and failures are drawn freely; the turns
\* after them carry DefaultUtterance and DefaultReply and their handlers
\* run to the end
MaxVaried == 1

\* the cap of conversation_history
HistoryCap == 20

\* number of turns of the history sent to the chat completion
ChatContext == 10

Engines == {"kokoro", "say"}

\* how the Kokoro path of speak can end: the audio is played, the pipeline
\* (or writing or playing the file) raises, or it yields no audio chunk
KokoroOutcomes == {"played", "raises", "no_audio"}

\* a speak that gives up when Kokoro fails
speak_GivesUp(text, k) ==
    IF text = <<>> \/ k # "played" THEN [engine |-> "none"]
    ELSE [engine |-> "kokoro", text |-> text, primary |-> k]

\* speak(text), lines 31-49: nothing for an empty text; else the Kokoro
\* path, and the say command with the same text when that path fails. The
\* value is the path last tried, the text given to it and how Kokoro ended.
speak(text, k) ==
    IF text = <<>> THEN [engine |-> "none"]
    ELSE [engine |-> IF k = "played" THEN "kokoro" ELSE "say",
          text |-> text, primary |-> k]

Turn(role, content) == [role |-> role, content |-> content]

\* the persona message of general_chat_with_context
SystemMessage == Turn("system", <<"persona">>)

\* a request that carries the whole history
ChatRequest_Whole(history) ==
    [kind |-> "chat", messages |-> <<SystemMessage>> \o history]

\* lines 162-170: the chat completion request
ChatRequest(history) ==
    [kind |-> "chat", messages |-> <<SystemMessage>> \o LastN(history, ChatContext)]

\* a history that is never cut
LimitOff(history) == history

\* a cut that keeps the oldest turns
Limit_KeepsOldest(history) ==
    IF Len(history) > HistoryCap THEN SubSeq(history, 1, HistoryCap)
    ELSE history

\* lines 142-143 and 155-156: the history cut to its last HistoryCap turns
Limit(history) ==
    IF Len(history) > HistoryCap THEN LastN(history, HistoryCap) ELSE history

FreeTurn == turns < MaxVaried

LoopPcs ==
    {"idle", "recorded", "nocatch", "process", "route", "classify",
     "routed", "chat", "responded", "appended", "speak"}

Init ==
    /\ discovered \in Scans
    /\ workflows = <<>>
    /\ conversation_history = <<>>
    /\ appended = <<>>
    /\ pc = "start"
    /\ user_text = <<>>
    /\ request = NoRequest
    /\ classification = NoClassification
    /\ workflow = <<>>
    /\ deps = NoDeps
    /\ handler = NoHandler
    /\ completion = NoCompletion
    /\ result = NoResult
    /\ response = <<>>
    /\ spoken = NotSpoken
    /\ exit = "none"
    /\ turns = 0
    /\ CleanOff
    /\ GetOff

\* workflow_manager = WorkflowManager(), then main announces the workflows
Startup ==
    /\ pc = "start"
    /\ workflows' = _load_workflows(discovered)
    /\ pc' = "idle"
    /\ UNCHANGED <<discovered, completion,
                   conversation_history, user_text, request,
                   classification, workflow, handler, result, response,
                   spoken, exit, turns>>
    /\ UNCHANGED <<appended, deps>>
    /\ UNCHANGED cleanVars
    /\ UNCHANGED getVars

\* a loop that speaks the prompt when no audio is captured
Record_SpeaksPrompt ==
    /\ pc = "idle"
    /\ Len(appended) < 2 * MaxTurns
    /\ \E wav \in {"", "path"}, k \in KokoroOutcomes :
           /\ pc' = IF wav = "" THEN "idle" ELSE "recorded"
           /\ spoken' = IF wav = "" THEN speak(DidntCatchText, k)
                        ELSE NotSpoken
    /\ user_text' = <<>>
    /\ request' = NoRequest
    /\ classification' = NoClassification
    /\ workflow' = <<>>
    /\ deps' = NoDeps
    /\ handler' = NoHandler
    /\ completion' = NoCompletion
    /\ result' = NoResult
    /\ response' = <<>>
    /\ UNCHANGED <<discovered, workflows, conversation_history, exit, turns>>
    /\ UNCHANGED appended
    /\ UNCHANGED cleanVars
    /\ UNCHANGED getVars

\* a loop that records the next utterance before the reply is spoken
Record_Eager ==
    /\ pc \in {"idle", "speak"}
    /\ Len(appended) < 2 * MaxTurns
    /\ \E wav \in {"", "path"} :
           pc' = IF wav = "" THEN "idle" ELSE "recorded"
    /\ user_text' = <<>>
    /\ request' = NoRequest
    /\ classification' = NoClassification
    /\ workflow' = <<>>
    /\ deps' = NoDeps
    /\ handler' = NoHandler
    /\ completion' = NoCompletion
    /\ result' = NoResult
    /\ response' = <<>>
    /\ spoken' = NotSpoken
    /\ UNCHANGED <<discovered, workflows, conversation_history, exit, turns>>
    /\ UNCHANGED appended
    /\ UNCHANGED cleanVars
    /\ UNCHANGED getVars

\* wav = record_wav(): no audio (or too short a recording) continues the
\* loop, audio goes on to transcribe
Record ==
    /\ pc = "idle"
    /\ Len(appended) < 2 * MaxTurns
    /\ \E wav \in {"", "path"} :
           pc' = IF wav = "" THEN "idle" ELSE "recorded"
    /\ user_text' = <<>>
    /\ request' = NoRequest
    /\ classification' = NoClassification
    /\ workflow' = <<>>
    /\ deps' = NoDeps
    /\ handler' = NoHandler
    /\ completion' = NoCompletion
    /\ result' = NoResult
    /\ response' = <<>>
    /\ spoken' = NotSpoken
    /\ UNCHANGED <<discovered, workflows, conversation_history, exit, turns>>
    /\ UNCHANGED appended
    /\ UNCHANGED cleanVars
    /\ UNCHANGED getVars

\* user_text = transcribe(wav) returns a text, possibly empty
Transcribe ==
    /\ pc = "recorded"
    /\ \E text \in {<<>>} \cup (IF FreeTurn THEN Utterances
                                ELSE {DefaultUtterance}) :
           /\ user_text' = text
           /\ pc' = IF text = <<>> THEN "nocatch" ELSE "process"
    /\ UNCHANGED <<discovered, completion,
                   workflows, conversation_history, request,
                   classification, workflow, handler, result, response,
                   spoken, exit, turns>>
    /\ UNCHANGED <<appended, deps>>
    /\ UNCHANGED cleanVars
    /\ UNCHANGED getVars

\* transcribe raises: main catches KeyboardInterrupt only
TranscribeRaises ==
    /\ pc = "recorded"
    /\ exit' = "exception"
    /\ pc' = "done"
    /\ UNCHANGED <<discovered, completion,
                   workflows, conversation_history, user_text,
                   request, classification, workflow, handler, result,
                   response, spoken, turns>>
    /\ UNCHANGED <<appended, deps>>
    /\ UNCHANGED cleanVars
    /\ UNCHANGED getVars

\* speak("I didn't catch that."); continue
SpeakNoCatch ==
    /\ pc = "nocatch"
    /\ \E k \in KokoroOutcomes : spoken' = speak(DidntCatchText, k)
    /\ pc' = "idle"
    /\ UNCHANGED <<discovered, completion,
                   workflows, conversation_history, user_text,
                   request, classification, workflow, handler, result,
                   response, exit, turns>>
    /\ UNCHANGED <<appended, deps>>
    /\ UNCHANGED cleanVars
    /\ UNCHANGED getVars

\* a turn that goes to routing without recording the utterance
BeginTurn_Skips ==
    /\ pc = "process"
    /\ pc' = "route"
    /\ UNCHANGED <<discovered, completion, workflows, conversation_history,
                   user_text, request, classification, workflow, handler,
                   result, response, spoken, exit, turns>>
    /\ UNCHANGED <<appended, deps>>
    /\ UNCHANGED cleanVars
    /\ UNCHANGED getVars

\* process_user_input, lines 124-127: the user turn is appended
BeginTurn ==
    /\ pc = "process"
    /\ conversation_history' =
           Append(conversation_history, Turn("user", user_text))
    /\ pc' = "route"
    /\ UNCHANGED <<discovered, completion,
                   workflows, user_text, request,
                   classification, workflow, handler, result, response,
                   spoken, exit, turns>>
    /\ appended' = Append(appended, Turn("user", user_text))
    /\ UNCHANGED deps
    /\ UNCHANGED cleanVars
    /\ UNCHANGED getVars

\* a router that asks the classifier whatever the registry holds
RouteEntry_AlwaysAsks ==
    /\ pc = "route"
    /\ pc' = "classify"
    /\ request' = ClassificationRequest(workflows, user_text,
                                        conversation_history)
    /\ UNCHANGED <<discovered, completion, workflows, conversation_history,
                   user_text, classification, workflow, handler, result,
                   response, spoken, exit, turns>>
    /\ UNCHANGED <<appended, deps>>
    /\ UNCHANGED cleanVars
    /\ UNCHANGED getVars

\* get_workflow_for_input, lines 109-164: None at once for an empty
\* registry, else the classification request is issued
RouteEntry ==
    /\ pc = "route"
    /\ IF workflows = <<>>
       THEN /\ pc' = "routed"
            /\ request' = request
       ELSE /\ pc' = "classify"
            /\ request' = ClassificationRequest(workflows, user_text,
                                                conversation_history)
    /\ UNCHANGED <<discovered, completion,
                   workflows, conversation_history, user_text,
                   classification, workflow, handler, result, response,
                   spoken, exit, turns>>
    /\ UNCHANGED <<appended, deps>>
    /\ UNCHANGED cleanVars
    /\ UNCHANGED getVars

\* the outcomes drawn for the classification call
OutcomesNow ==
    IF FreeTurn THEN ClassifyOutcomes
    ELSE {o \in ClassifyOutcomes :
             LET d == RouteDecision(workflows, user_text, o)
             IN  d = <<>> \/ d[1].agent}

\* a router that enters get_workflow_for_input again when the call fails
ClassifyRetries ==
    /\ pc = "classify"
    /\ \E o \in OutcomesNow :
           /\ classification' = o
           /\ IF o.kind = "answer"
              THEN /\ workflow' = ParseAnswer(workflows, o.content)
                   /\ pc' = "routed"
              ELSE /\ workflow' = workflow
                   /\ pc' = "route"
    /\ request' = NoRequest
    /\ UNCHANGED <<discovered, completion,
                   workflows, conversation_history, user_text,
                   handler, result, response, spoken, exit, turns>>
    /\ UNCHANGED <<appended, deps>>
    /\ UNCHANGED cleanVars
    /\ UNCHANGED getVars

\* get_workflow_for_input, lines 155-184: the call returns or raises and
\* the decision is made
ClassifyReturn ==
    /\ pc = "classify"
    /\ \E o \in OutcomesNow :
           /\ classification' = o
           /\ workflow' = RouteDecision(workflows, user_text, o)
    /\ request' = NoRequest
    /\ pc' = "routed"
    /\ UNCHANGED <<discovered, completion,
                   workflows, conversation_history, user_text,
                   handler, result, response, spoken, exit, turns>>
    /\ UNCHANGED <<appended, deps>>
    /\ UNCHANGED cleanVars
    /\ UNCHANGED getVars

\* an execution that unregisters a workflow whose handler raised
Execute_DropsFailed ==
    /\ pc = "routed"
    /\ workflow # <<>>
    /\ \E h \in (IF workflow[1].agent THEN HandlerOutcomes(FreeTurn)
                 ELSE {NotRun}) :
           /\ handler' = h
           /\ result' = execute(workflow[1], h)
           /\ response' = clean_text_for_tts(execute(workflow[1], h).response)
           /\ workflows' =
                  IF h.kind = "raise"
                  THEN SelectSeq(workflows, LAMBDA w : w # workflow[1])
                  ELSE workflows
    /\ deps' = WorkflowDependencies("default", SharedList)
    /\ pc' = "responded"
    /\ UNCHANGED <<discovered, completion, conversation_history, user_text,
                   request, classification, workflow, spoken, exit, turns>>
    /\ UNCHANGED appended
    /\ UNCHANGED cleanVars
    /\ UNCHANGED getVars

\* process_user_input, lines 132-136: the workflow is executed
Execute ==
    /\ pc = "routed"
    /\ workflow # <<>>
    /\ \E h \in (IF workflow[1].agent THEN HandlerOutcomes(FreeTurn)
                 ELSE {NotRun}) :
           /\ handler' = h
           /\ result' = execute(workflow[1], h)
           /\ response' = clean_text_for_tts(execute(workflow[1], h).response)
    /\ deps' = WorkflowDependencies("default", SharedList)
    /\ pc' = "responded"
    /\ UNCHANGED <<discovered, completion,
                   workflows, conversation_history, user_text,
                   request, classification, workflow, spoken, exit, turns>>
    /\ UNCHANGED appended
    /\ UNCHANGED cleanVars
    /\ UNCHANGED getVars

\* general_chat_with_context, lines 162-170: the chat request is issued
ChatCall ==
    /\ pc = "routed"
    /\ workflow = <<>>
    /\ request' = ChatRequest(conversation_history)
    /\ pc' = "chat"
    /\ UNCHANGED <<discovered, completion,
                   workflows, conversation_history, user_text,
                   classification, workflow, handler, result, response,
                   spoken, exit, turns>>
    /\ UNCHANGED <<appended, deps>>
    /\ UNCHANGED cleanVars
    /\ UNCHANGED getVars

\* a chat that returns the completion as it came, only trimmed
ChatReturn_Raw ==
    /\ pc = "chat"
    /\ \E raw \in (IF FreeTurn THEN ChatReplies ELSE {DefaultReply}) :
           /\ completion' = raw
           /\ response' = Strip(raw)
    /\ request' = NoRequest
    /\ pc' = "responded"
    /\ UNCHANGED <<discovered, workflows, conversation_history, user_text,
                   classification, workflow, handler, result, spoken, exit,
                   turns>>
    /\ UNCHANGED <<appended, deps>>
    /\ UNCHANGED cleanVars
    /\ UNCHANGED getVars

\* general_chat_with_context, lines 170-172: the completion answers
ChatReturn ==
    /\ pc = "chat"
    /\ \E raw \in (IF FreeTurn THEN ChatReplies ELSE {DefaultReply}) :
           /\ completion' = raw
           /\ response' = clean_text_for_tts(Strip(raw))
    /\ request' = NoRequest
    /\ pc' = "responded"
    /\ UNCHANGED <<discovered, workflows, conversation_history, user_text,
                   classification, workflow, handler, result, spoken, exit,
                   turns>>
    /\ UNCHANGED <<appended, deps>>
    /\ UNCHANGED cleanVars
    /\ UNCHANGED getVars

\* the chat completion raises: neither general_chat_with_context nor
\* process_user_input nor main catches it
ChatRaises ==
    /\ pc = "chat"
    /\ exit' = "exception"
    /\ pc' = "done"
    /\ UNCHANGED <<discovered, completion,
                   workflows, conversation_history, user_text,
                   request, classification, workflow, handler, result,
                   response, spoken, turns>>
    /\ UNCHANGED <<appended, deps>>
    /\ UNCHANGED cleanVars
    /\ UNCHANGED getVars

\* process_user_input, lines 139 and 152: the assistant turn is appended
AppendAssistant ==
    /\ pc = "responded"
    /\ conversation_history' =
           Append(conversation_history, Turn("assistant", response))
    /\ pc' = "appended"
    /\ UNCHANGED <<discovered, completion,
                   workflows, user_text, request,
                   classification, workflow, handler, result, response,
                   spoken, exit, turns>>
    /\ appended' = Append(appended, Turn("assistant", response))
    /\ UNCHANGED deps
    /\ UNCHANGED cleanVars
    /\ UNCHANGED getVars

\* process_user_input, lines 142-145 and 155-158: the history is cut to
\* its cap and the response returned
LimitHistory ==
    /\ pc = "appended"
    /\ conversation_history' = Limit(conversation_history)
    /\ pc' = "speak"
    /\ turns' = IF turns < MaxVaried THEN turns + 1 ELSE turns
    /\ UNCHANGED <<discovered, completion,
                   workflows, user_text, request,
                   classification, workflow, handler, result, response,
                   spoken, exit>>
    /\ UNCHANGED <<appended, deps>>
    /\ UNCHANGED cleanVars
    /\ UNCHANGED getVars

\* speak(reply): nothing for an empty reply, else Kokoro, or say when
\* Kokoro fails
Speak ==
    /\ pc = "speak"
    /\ \E k \in KokoroOutcomes : spoken' = speak(response, k)
    /\ pc' = "idle"
    /\ UNCHANGED <<discovered, completion,
                   workflows, conversation_history, user_text,
                   request, classification, workflow, handler, result,
                   response, exit, turns>>
    /\ UNCHANGED <<appended, deps>>
    /\ UNCHANGED cleanVars
    /\ UNCHANGED getVars

\* speak's say command cannot be run after Kokoro failed: subprocess.run
\* raises inside the except clause and main catches KeyboardInterrupt only
SpeakRaises ==
    /\ pc \in {"speak", "nocatch"}
    /\ LET text == IF pc = "nocatch" THEN DidntCatchText ELSE response
       IN  /\ text # <<>>
           /\ \E k \in KokoroOutcomes \ {"played"} :
                  spoken' = speak(text, k)
    /\ exit' = "exception"
    /\ pc' = "done"
    /\ UNCHANGED <<discovered, completion, workflows, conversation_history,
                   user_text, request, classification, workflow, handler,
                   result, response, turns>>
    /\ UNCHANGED <<appended, deps>>
    /\ UNCHANGED cleanVars
    /\ UNCHANGED getVars

\* KeyboardInterrupt raised anywhere in the loop (Ctrl+C under the default
\* signal handler): the farewell, then break, and the program ends with
\* status 0
Interrupt ==
    /\ pc \in LoopPcs
    /\ exit' = "interrupt"
    /\ pc' = "done"
    /\ UNCHANGED <<discovered, completion,
                   workflows, conversation_history, user_text,
                   request, classification, workflow, handler, result,
                   response, spoken, turns>>
    /\ UNCHANGED <<appended, deps>>
    /\ UNCHANGED cleanVars
    /\ UNCHANGED getVars

\* Ctrl+C while the handler is awaited, under the runner of Python 3.11 and
\* later: asyncio.run catches the signal and cancels the main task, the
\* CancelledError raised at the await of agent.run is caught neither by
\* execute's "except Exception" nor by main's "except KeyboardInterrupt",
\* and asyncio.run then raises KeyboardInterrupt itself: no farewell, a
\* traceback and a non-zero status
InterruptCancels ==
    /\ pc = "routed"
    /\ workflow # <<>>
    /\ workflow[1].agent
    /\ exit' = "cancelled"
    /\ pc' = "done"
    /\ UNCHANGED <<discovered, completion, workflows, conversation_history,
                   user_text, request, classification, workflow, handler,
                   result, response, spoken, turns>>
    /\ UNCHANGED <<appended, deps>>
    /\ UNCHANGED cleanVars
    /\ UNCHANGED getVars

Next ==
    \/ Startup
    \/ Record
    \/ Transcribe
    \/ TranscribeRaises
    \/ SpeakNoCatch
    \/ BeginTurn
    \/ RouteEntry
    \/ ClassifyReturn
    \/ Execute
    \/ ChatCall
    \/ ChatReturn
    \/ ChatRaises
    \/ AppendAssistant
    \/ LimitHistory
    \/ Speak
    \/ SpeakRaises
    \/ Interrupt
    \/ InterruptCancels

Spec == Init /\ [][Next]_vars

(***************************************************************************)
(* clean_text_for_tts applied to every short text                          *)
(***************************************************************************)
\* the characters of the drawn texts
Alphabet == {"1", ".", " ", "\n", "*", Backquote, "O", "(", ")", "a"}

\* every text over Alphabet of length at most n
RECURSIVE Texts(_)
Texts(n) ==
    IF n = 0 THEN {<<>>}
    ELSE LET shorter == Texts(n - 1)
         IN  shorter \cup {Append(t, c) : t \in shorter, c \in Alphabet}

\* list items with a complexity: a list marker, then O(expr) with one
\* character at most before and after it
ListMarkers == {<<"1", ".">>, <<"1", ".", " ">>}

Before == {<<>>, <<"a">>, <<"*">>}

After == {<<>>, <<"a">>, <<"*">>, <<"(">>, <<".">>}

ListItems ==
    {m \o pre \o <<"O", "(">> \o e \o <<")">> \o post :
        m \in ListMarkers, pre \in Before,
        e \in Texts(MaxExpr) \ {<<>>}, post \in After}

CleanInit ==
    /\ cleanIn \in Texts(MaxLen) \cup ListItems
    /\ cleanPc = "in"
    /\ cleanOut1 = <<>>
    /\ cleanOut2 = <<>>
    /\ ProgramOff
    /\ GetOff

CleanOnce ==
    /\ cleanPc = "in"
    /\ cleanOut1' = clean_text_for_tts(cleanIn)
    /\ cleanPc' = "once"
    /\ UNCHANGED <<cleanIn, cleanOut2>>
    /\ UNCHANGED programVars
    /\ UNCHANGED getVars

CleanTwice ==
    /\ cleanPc = "once"
    /\ cleanOut2' = clean_text_for_tts(cleanOut1)
    /\ cleanPc' = "twice"
    /\ UNCHANGED <<cleanIn, cleanOut1>>
    /\ UNCHANGED programVars
    /\ UNCHANGED getVars

CleanNext == CleanOnce \/ CleanTwice

CleanSpec == CleanInit /\ [][CleanNext]_vars

(***************************************************************************)
(* get_workflow_for_input on its own: called once, on the history of a     *)
(* first turn, for every scan and utterance                                *)
(***************************************************************************)
RouteInit ==
    /\ discovered \in Scans
    /\ workflows = _load_workflows(discovered)
    /\ user_text \in Utterances
    /\ conversation_history = <<Turn("user", user_text)>>
    /\ appended = <<Turn("user", user_text)>>
    /\ pc = "route"
    /\ request = NoRequest
    /\ classification = NoClassification
    /\ workflow = <<>>
    /\ deps = NoDeps
    /\ handler = NoHandler
    /\ completion = NoCompletion
    /\ result = NoResult
    /\ response = <<>>
    /\ spoken = NotSpoken
    /\ exit = "none"
    /\ turns = 0
    /\ CleanOff
    /\ GetOff

RouteNext == RouteEntry \/ ClassifyReturn

\* the call made is a blocking call of the client library: it returns or
\* raises, and every step of the code after it is taken
FairRouteSpec == RouteInit /\ [][RouteNext]_vars /\ WF_vars(RouteNext)

(***************************************************************************)
(* WorkflowManager.get_workflow on its own: the manager is constructed,    *)
(* then called once, for every scan and name                               *)
(***************************************************************************)
\* the names looked up
LookupNames == AnswerWords \cup {"BrokenWorkflow"}

\* self.workflows.get(name): the workflow stored under the name, or None
get_workflow(ws, name) ==
    IF \E i \in 1..Len(ws) : ws[i].name = name
    THEN [kind |-> "workflow",
          value |-> ws[CHOOSE i \in 1..Len(ws) : ws[i].name = name]]
    ELSE [kind |-> "None"]

GetInit ==
    /\ getName \in LookupNames
    /\ getPc = "start"
    /\ getOut = NoOutput
    /\ discovered \in Scans
    /\ workflows = <<>>
    /\ conversation_history = <<>>
    /\ appended = <<>>
    /\ pc = "off"
    /\ user_text = <<>>
    /\ request = NoRequest
    /\ classification = NoClassification
    /\ workflow = <<>>
    /\ deps = NoDeps
    /\ handler = NoHandler
    /\ completion = NoCompletion
    /\ result = NoResult
    /\ response = <<>>
    /\ spoken = NotSpoken
    /\ exit = "none"
    /\ turns = 0
    /\ cleanIn = <<>>
    /\ cleanPc = "off"
    /\ cleanOut1 = <<>>
    /\ cleanOut2 = <<>>

\* WorkflowManager(): the workflows are loaded
GetLoad ==
    /\ getPc = "start"
    /\ workflows' = _load_workflows(discovered)
    /\ getPc' = "loaded"
    /\ UNCHANGED <<getName, getOut, discovered, conversation_history,
                   appended, deps, pc,
                   user_text, request, classification, workflow, handler,
                   completion, result, response, spoken, exit, turns>>
    /\ UNCHANGED cleanVars

\* get_workflow(name) is called and returns
GetWorkflow ==
    /\ getPc = "loaded"
    /\ getOut' = get_workflow(workflows, getName)
    /\ getPc' = "returned"
    /\ UNCHANGED <<getName>>
    /\ UNCHANGED programVars
    /\ UNCHANGED cleanVars

GetNext == GetLoad \/ GetWorkflow

GetSpec == GetInit /\ [][GetNext]_vars

(***************************************************************************)
(* Properties                                                              *)
(***************************************************************************)
\* t is a substring of u when letter case is ignored
IsSubstringIgnoringCase(t, u) ==
    \E off \in 0..(Len(u) - Len(t)) :
        \A k \in 1..Len(t) : LowerChar(u[off + k]) = LowerChar(t[k])

\* the indices of the registered workflows with a trigger inside u
KeywordMatches(u) ==
    {i \in 1..Len(workflows) :
        \E k \in 1..Len(workflows[i].triggers) :
            IsSubstringIgnoringCase(workflows[i].triggers[k], u)}

\* C1: whatever the utterance, the history and the outcome of the
\* classification call, get_workflow_for_input returns a workflow stored in
\* the registry or None.
RouteReturnsRegisteredOrNone ==
    \/ workflow = <<>>
    \/ \E i \in 1..Len(workflows) : workflows[i] = workflow[1]

\* C1 witness: the classifier named a workflow that is not registered and
\* routing returned None.
RouteUnregisteredName ==
    /\ pc = "routed"
    /\ classification = [kind |-> "answer", content |-> <<"NewsWorkflow">>]
    /\ workflows # <<>>
    /\ \A i \in 1..Len(workflows) : workflows[i].name # "NewsWorkflow"
    /\ workflow = <<>>

\* C2: when the classification call raises, routing returns the first
\* workflow in registration order with a trigger that is a case-insensitive
\* substring of the utterance, None when there is none, and the failure
\* does not end the turn.
KeywordFallbackOnFailure ==
    (pc = "routed" /\ classification.kind = "raise") =>
        /\ exit = "none"
        /\ IF KeywordMatches(user_text) = {}
           THEN workflow = <<>>
           ELSE LET first == CHOOSE i \in KeywordMatches(user_text) :
                                 \A j \in KeywordMatches(user_text) : i <= j
                IN  workflow = <<workflows[first]>>

\* C2 witness: the call raised and "Add news" went to the shopping workflow
\* through its trigger "add", a workflow registered before it having no
\* matching trigger.
KeywordFallbackPicked ==
    /\ pc = "routed"
    /\ classification.kind = "raise"
    /\ user_text = UttAddNews
    /\ workflow # <<>>
    /\ workflow[1].name = "ShoppingWorkflow"
    /\ workflows[1].name # "ShoppingWorkflow"

TurnBoundary == pc \in {"start", "idle", "recorded", "nocatch", "process", "speak"}

\* C4 as stated: the history never holds more than 20 turns, also while a
\* turn is processed.
HistoryNeverExceedsCap == Len(conversation_history) <= HistoryCap

\* C4 amended: the history holds at most 20 turns whenever
\* process_user_input is not in progress, and at most 22 while it is.
HistoryWithinCapBetweenTurns ==
    /\ TurnBoundary => Len(conversation_history) <= HistoryCap
    /\ Len(conversation_history) <= HistoryCap + 2

\* C4 witness: the assistant turn was appended to a full history and the
\* cut has not been made yet.
HistoryOverCapInsideTurn ==
    /\ pc = "appended"
    /\ Len(conversation_history) = HistoryCap + 2

\* The history holds user and assistant turns only: the persona message is
\* put in front of each chat request and never stored, so the case of C5 (a
\* system turn in the history) arises in no reachable state.
HistoryHoldsNoSystemTurn ==
    \A i \in 1..Len(conversation_history) :
        conversation_history[i].role \in {"user", "assistant"}

\* the history's last turn is the assistant's, with this content
LastTurnIs(content) ==
    /\ conversation_history # <<>>
    /\ conversation_history[Len(conversation_history)] =
           Turn("assistant", content)

\* what execute returns for a handler that raised
ErrorOutput ==
    WorkflowOutput(SorryPrefix \o handler.cause, FALSE, workflow[1].name)

\* C6 as stated: a handler that raises gives the error output, and that
\* response is what is recorded as the assistant turn and spoken.
HandlerFailureRecordedVerbatim ==
    (handler.kind = "raise" /\ pc \in {"speak", "idle"}) =>
        /\ result = ErrorOutput
        /\ LastTurnIs(result.response)
        /\ pc = "idle" => (spoken # NotSpoken /\ spoken.text = result.response)

\* C6 amended: a handler that raises gives the error output, and the
\* normalized form of that response (clean_text_for_tts of it) is what is
\* returned, recorded as the assistant turn and spoken.
HandlerFailureRecordedNormalized ==
    (handler.kind = "raise" /\ pc \in {"responded", "appended", "speak", "idle"}) =>
        /\ exit = "none"
        /\ result = ErrorOutput
        /\ response = clean_text_for_tts(SorryPrefix \o handler.cause)
        /\ pc # "responded" => LastTurnIs(response)
        /\ pc = "idle" => (spoken # NotSpoken /\ spoken.text = response)

\* C6 witness: a handler raised and its error response was recorded and
\* spoken.
HandlerFailureSpoken ==
    /\ pc = "idle"
    /\ handler.kind = "raise"
    /\ result # NoResult
    /\ ~result.success
    /\ spoken # NotSpoken

\* C7: the turn loop ends on a user interrupt only.
LoopEndsOnInterruptOnly == pc = "done" => exit = "interrupt"

\* the classes of the scan that are constructed, in order
RECURSIVE ConstructedIn(_, _)
ConstructedIn(classes, k) ==
    IF k > Len(classes) \/ classes[k].raises THEN <<>>
    ELSE <<classes[k]>> \o ConstructedIn(classes, k + 1)

RECURSIVE ConstructedFrom(_, _)
ConstructedFrom(modules, m) ==
    IF m > Len(modules) THEN <<>>
    ELSE ConstructedIn(modules[m], 1) \o ConstructedFrom(modules, m + 1)

\* two constructed classes of the scan have the same name
DuplicateName ==
    LET cs == ConstructedFrom(discovered, 1)
    IN  \E i, j \in 1..Len(cs) : i < j /\ cs[i].name = cs[j].name

\* C8: with two workflows of one name the program does not start.
DuplicateNameStopsStartup == DuplicateName => pc = "start"

\* C9: clean_text_for_tts is idempotent.
CleanIdempotent == cleanPc = "twice" => cleanOut2 = cleanOut1

\* the text has a character of the emphasis, code or complexity notation
HasNotation(s) ==
    \E i \in 1..Len(s) : s[i] \in {"*", Backquote, "O", "(", ")"}

\* the digit at index i of s has only digits and whitespace between it and
\* the start of its line
RECURSIVE AtLineStart(_, _)
AtLineStart(s, i) ==
    \/ i = 1
    \/ s[i - 1] = "\n"
    \/ s[i - 1] \in (Digits \cup Whitespace) /\ AtLineStart(s, i - 1)

\* some digit followed by a period stands at the start of a line
HasLineStartMarker(s) ==
    \E i \in 1..(Len(s) - 1) :
        s[i] \in Digits /\ s[i + 1] = "." /\ AtLineStart(s, i)

\* the text with each run of whitespace made one space and its ends trimmed
CollapseWhitespace(s) == Strip(SubRuns(Whitespace, s, 1))

\* C10: a text without notation and without a list marker at the start of
\* a line loses nothing but whitespace: a number followed by a period
\* inside a line is kept.
CleanKeepsContent ==
    (cleanPc = "once" /\ ~HasNotation(cleanIn) /\ ~HasLineStartMarker(cleanIn))
        => cleanOut1 = CollapseWhitespace(cleanIn)

\* the text starts with an ordinal list marker: digits, then a period
StartsWithMarker(s) ==
    LET j == SpanEnd(Digits, s, 1)
    IN  j > 1 /\ j <= Len(s) /\ s[j] = "."

\* the expressions of the text's complexities: each non-empty expr without
\* a closing parenthesis that stands in the text as O(expr)
ComplexityExprs(s) ==
    {SubSeq(s, pq[1] + 2, pq[2] - 1) :
        pq \in {x \in (1..Len(s)) \X (1..Len(s)) :
                   /\ StartsWith(s, x[1], <<"O", "(">>)
                   /\ x[2] > x[1] + 2
                   /\ s[x[2]] = ")"
                   /\ \A k \in (x[1] + 2)..(x[2] - 1) : s[k] # ")"}}

\* "big O of" without the space after it
BigOOfTrimmed == SubSeq(BigOOf, 1, Len(BigOOf) - 1)

PlainExpr(e) ==
    /\ e # <<>>
    /\ \A i \in 1..Len(e) :
           e[i] \notin Digits \cup {"*", Backquote, "(", ")", "\n"}
    /\ e[1] # " "
    /\ e[Len(e)] \notin {" ", "O"}
    /\ \A i \in 1..(Len(e) - 1) : ~(e[i] = " " /\ e[i + 1] = " ")

\* the text has no emphasis or code delimiter
NoEmphasis(s) == \A i \in 1..Len(s) : s[i] \notin {"*", Backquote}

Dispatching == {"route", "classify", "routed", "chat", "responded"}

\* the history ends with the turn's utterance and, after it, the response
EndsWithExchange ==
    LET n == Len(conversation_history)
    IN  /\ n >= 2
        /\ conversation_history[n - 1] = Turn("user", user_text)
        /\ conversation_history[n] = Turn("assistant", response)

\* how a step of process_user_input writes the history
TurnWrites ==
    /\ (pc = "process" /\ pc' = "route") =>
           conversation_history' =
               Append(conversation_history, Turn("user", user_text))
    /\ (pc \in Dispatching /\ pc' \in Dispatching) =>
           conversation_history' = conversation_history
    /\ (pc = "responded" /\ pc' = "appended") =>
           /\ conversation_history' =
                  Append(conversation_history, Turn("assistant", response))
           /\ response' = response
    /\ (pc = "appended" /\ pc' = "speak") =>
           /\ conversation_history' =
                  LastN(conversation_history, HistoryCap)
           /\ response' = response

\* C12: a processed utterance appends exactly one user turn, before routing
\* and dispatch, the history is not written while the turn is routed and
\* answered, and exactly one assistant turn is appended after the response
\* is produced, with the text of the response returned to the caller.
TurnAppendsUserThenAssistant ==
    /\ [](pc \in Dispatching =>
             /\ conversation_history # <<>>
             /\ conversation_history[Len(conversation_history)] =
                    Turn("user", user_text))
    /\ [](pc \in {"appended", "speak"} => EndsWithExchange)
    /\ [][TurnWrites]_vars

\* C12 witness: process_user_input returned a non-empty response of the
\* fallback conversation after an earlier exchange, and the history ends
\* with the utterance and that response.
ExchangeRecorded ==
    /\ pc = "speak"
    /\ workflow = <<>>
    /\ response # <<>>
    /\ Len(conversation_history) >= 4
    /\ EndsWithExchange

\* the raw response of the turn: the handler's output or the completion
RawResponse == IF workflow # <<>> THEN result.response ELSE completion

\* every raw response a workflow or the fallback conversation can produce
RawResponses ==
    Replies \cup ChatReplies \cup {SorryPrefix \o c : c \in Causes}
        \cup {NotConfiguredText}

\* their normalized forms
NormalizedResponses == {clean_text_for_tts(raw) : raw \in RawResponses}

\* C13: the response of a turn, from a workflow or from the fallback
\* conversation, is clean_text_for_tts of the raw response, that is what is
\* appended and returned, and every assistant turn of the history is
\* clean_text_for_tts of a raw response.
AssistantTurnsNormalized ==
    /\ pc \in {"responded", "appended", "speak"} =>
           response = clean_text_for_tts(RawResponse)
    /\ pc \in {"appended", "speak"} =>
           LastTurnIs(clean_text_for_tts(RawResponse))
    /\ \A i \in 1..Len(conversation_history) :
           conversation_history[i].role = "assistant" =>
               conversation_history[i].content \in NormalizedResponses

\* C13 witness: the completion "1. *Sunny*" of the fallback conversation was
\* recorded as "Sunny".
FormattedReplyRecordedClean ==
    /\ pc = "speak"
    /\ workflow = <<>>
    /\ completion = ReplyFormatted
    /\ LastTurnIs(<<"S", "u", "n", "n", "y">>)

\* the indices of the registered workflows named by the trimmed answer
NamedByAnswer ==
    {i \in 1..Len(workflows) :
        <<workflows[i].name>> = Strip(classification.content)}

\* C14: when the classification call answers with a text, routing returns
\* the workflow whose name equals the trimmed text, and None when the text
\* is "general" or names no registered workflow, whatever keywords the
\* utterance holds.
AnswerDecidesRoute ==
    (pc = "routed" /\ classification.kind = "answer") =>
        IF NamedByAnswer = {}
        THEN workflow = <<>>
        ELSE /\ Strip(classification.content) # <<"general">>
             /\ \A i \in NamedByAnswer : workflow = <<workflows[i]>>

\* C14 witness: the answer was "general" for an utterance that holds a
\* trigger of a registered workflow, and routing returned None.
GeneralAnswerBeatsKeyword ==
    /\ pc = "routed"
    /\ classification = [kind |-> "answer", content |-> <<"general">>]
    /\ KeywordMatches(user_text) # {}
    /\ workflow = <<>>

\* a padded answer was trimmed and its workflow returned
PaddedAnswerRouted ==
    /\ pc = "routed"
    /\ classification =
           [kind |-> "answer", content |-> <<" ", "WeatherWorkflow", "\n">>]
    /\ workflow # <<>>
    /\ workflow[1].name = "WeatherWorkflow"

\* C15: with an empty registry no classification request is issued and no
\* classification is received, routing returns None, no handler runs, and
\* the turn is answered by the fallback conversation.
EmptyRegistryGoesToFallback ==
    (workflows = <<>> /\ pc # "start") =>
        /\ pc # "classify"
        /\ request.kind # "classify"
        /\ classification = NoClassification
        /\ workflow = <<>>
        /\ handler = NoHandler
        /\ result = NoResult
        /\ pc = "chat" => request = ChatRequest(conversation_history)
        /\ pc \in {"responded", "appended", "speak"} =>
               /\ completion \in ChatReplies
               /\ response = clean_text_for_tts(completion)

\* C15 witness: with an empty registry a turn was answered by the fallback
\* conversation.
EmptyRegistryAnswered ==
    /\ workflows = <<>>
    /\ pc = "speak"
    /\ completion \in ChatReplies
    /\ response # <<>>
    /\ LastTurnIs(response)

\* the name handed to get_workflow is registered
NameRegistered == \E i \in 1..Len(workflows) : workflows[i].name = getName

\* C16: get_workflow returns the workflow registered under the name, and
\* fails with a not-found error for a name that is not registered: it never
\* returns a null handler.
GetWorkflowFailsOnUnknownName ==
    getPc = "returned" =>
        IF NameRegistered
        THEN /\ getOut.kind = "workflow"
             /\ getOut.value.name = getName
        ELSE getOut.kind = "raise"

\* C17 as stated: when no audio is captured, and when the transcription is
\* empty, the prompt "I didn't catch that." is spoken, the history is left
\* as it is, no request is issued and the loop goes on.
EmptyInputSpeaksPrompt ==
    [][((pc = "idle" /\ pc' = "idle") \/ (pc = "nocatch" /\ pc' = "idle")) =>
          /\ spoken' # NotSpoken
          /\ spoken'.text = DidntCatchText
          /\ conversation_history' = conversation_history
          /\ request' = NoRequest]_vars

\* what the loop does with an empty input
EmptyInputStep ==
    /\ (pc = "idle" /\ pc' = "idle") =>
           /\ spoken' = NotSpoken
           /\ conversation_history' = conversation_history
           /\ request' = NoRequest
           /\ exit' = exit
    /\ (pc = "recorded" /\ pc' = "nocatch") =>
           /\ user_text' = <<>>
           /\ conversation_history' = conversation_history
    /\ pc = "nocatch" =>
           /\ pc' \in {"idle", "done"}
           /\ conversation_history' = conversation_history
           /\ request' = NoRequest
           /\ pc' = "idle" =>
                  /\ spoken' # NotSpoken
                  /\ spoken'.text = DidntCatchText
                  /\ exit' = exit

\* C17 amended: an empty transcription is a normal turn outcome: the prompt
\* "I didn't catch that." is spoken, the history is left as it is, no
\* routing or completion request is issued and the loop goes on; when no
\* audio is captured (or the recording is too short) the same holds but
\* nothing is spoken.
EmptyInputIsNormalOutcome ==
    /\ [](pc = "nocatch" =>
             /\ user_text = <<>>
             /\ request = NoRequest
             /\ classification = NoClassification
             /\ exit = "none")
    /\ [][EmptyInputStep]_vars

\* C17 witness: after an earlier exchange a transcription was empty, the
\* prompt was spoken and the loop is ready for the next utterance.
PromptSpokenAfterEmptyTranscription ==
    /\ pc = "idle"
    /\ spoken # NotSpoken
    /\ spoken.text = DidntCatchText
    /\ user_text = <<>>
    /\ Len(conversation_history) >= 2
    /\ exit = "none"

\* routing is in progress
Routing == pc \in {"route", "classify"}

\* C18: after startup the registry is what was loaded, whatever turns have
\* been processed: no step changes the workflows, their names or their
\* triggers, and the steps of routing change neither the registry nor the
\* history.
RegistryFixedAfterStartup ==
    /\ [](pc # "start" => workflows = _load_workflows(discovered))
    /\ [][pc # "start" => workflows' = workflows]_vars
    /\ [][Routing =>
             /\ workflows' = workflows
             /\ conversation_history' = conversation_history]_vars

\* C18 witness: a turn whose handler raised has been processed after an
\* earlier turn and the registry still holds the workflows loaded at
\* startup.
RegistryKeptThroughFailure ==
    /\ pc = "speak"
    /\ handler.kind = "raise"
    /\ workflows # <<>>
    /\ workflows = _load_workflows(discovered)
    /\ \E i \in 1..Len(workflows) : workflows[i] = workflow[1]

\* the places that can follow a place of the loop
Successors(p) ==
    CASE p = "start"     -> {"idle"}
      [] p = "idle"      -> {"idle", "recorded", "done"}
      [] p = "recorded"  -> {"nocatch", "process", "done"}
      [] p = "nocatch"   -> {"idle", "done"}
      [] p = "process"   -> {"route", "done"}
      [] p = "route"     -> {"classify", "routed", "done"}
      [] p = "classify"  -> {"routed", "done"}
      [] p = "routed"    -> {"responded", "chat", "done"}
      [] p = "chat"      -> {"responded", "done"}
      [] p = "responded" -> {"appended", "done"}
      [] p = "appended"  -> {"speak", "done"}
      [] p = "speak"     -> {"idle", "done"}
      [] OTHER           -> {}

\* C19: an utterance is routed, then executed or answered by the fallback
\* conversation, then the history is updated, then the reply is spoken,
\* and only then is the next utterance recorded; the history is written
\* by process_user_input only, and the reply spoken is the response of the
\* turn.
TurnsSequential ==
    /\ [][pc' \in Successors(pc)]_vars
    /\ [][pc' = "recorded" => pc = "idle"]_vars
    /\ [][conversation_history' # conversation_history =>
             pc \in {"process", "responded", "appended"}]_vars
    /\ [][(pc = "speak" /\ pc' = "idle" /\ response # <<>>) =>
             (spoken' # NotSpoken /\ spoken'.text = response)]_vars

\* C19 witness: after a turn was spoken the next utterance was recorded.
NextUtteranceAfterSpeak ==
    /\ pc = "recorded"
    /\ Len(conversation_history) >= 2
    /\ conversation_history[Len(conversation_history)].role = "assistant"
    /\ spoken = NotSpoken

\* C20 as stated: the request of the fallback conversation is the persona
\* message followed by every turn of the history in order, the last being
\* the current utterance.
ChatSendsWholeHistory ==
    pc = "chat" =>
        /\ request.kind = "chat"
        /\ request.messages = <<SystemMessage>> \o conversation_history
        /\ request.messages[Len(request.messages)] = Turn("user", user_text)

\* C20 amended: the request is the persona message followed by the last ten
\* turns of the history in order (all of them when it holds ten or fewer),
\* the last being the current utterance; no other message has the system
\* role.
ChatSendsLastTenTurns ==
    pc = "chat" =>
        LET m == request.messages
            n == Len(conversation_history)
            k == IF n < ChatContext THEN n ELSE ChatContext
        IN  /\ request.kind = "chat"
            /\ Len(m) = k + 1
            /\ m[1] = SystemMessage
            /\ \A j \in 1..k :
                   /\ m[j + 1] = conversation_history[n - k + j]
                   /\ m[j + 1].role # "system"
            /\ m[Len(m)] = Turn("user", user_text)

\* C20 witness: the fallback conversation was called with a history of more
\* than ten turns and its request holds eleven messages.
ChatCalledOnLongHistory ==
    /\ pc = "chat"
    /\ Len(conversation_history) > ChatContext
    /\ Len(request.messages) = ChatContext + 1

\* speak was called in this step: the places from which main calls it,
\* left otherwise than by an interrupt
SpeakCalled ==
    /\ pc \in {"speak", "nocatch"}
    /\ pc' \in {"idle", "done"}
    /\ exit' # "interrupt"

\* the text given to speak at this place
TextToSpeak == IF pc = "nocatch" THEN DidntCatchText ELSE response

\* C21: when speak is called with a non-empty text, the text is given to
\* Kokoro, and when Kokoro raises or produces no audio the same text is
\* given to the say command: the text is never dropped without an attempt
\* on one of the two paths.
SpeakFallsBackToSay ==
    [][(SpeakCalled /\ TextToSpeak # <<>>) =>
          /\ spoken' # NotSpoken
          /\ spoken'.engine \in Engines
          /\ spoken'.text = TextToSpeak
          /\ spoken'.engine = "say" <=> spoken'.primary # "played"]_vars

\* C21 witness: Kokoro produced no audio for a reply and the reply was
\* given to the say command.
ReplySpokenBySay ==
    /\ pc = "idle"
    /\ response # <<>>
    /\ spoken = [engine |-> "say", text |-> response, primary |-> "no_audio"]

\* C22: a user interrupt at any point of the loop ends the program with
\* the farewell and status 0: no run ended by an interrupt ends otherwise.
InterruptEndsWithFarewell ==
    (pc = "done" /\ exit # "exception") => exit = "interrupt"

\* the "role: content" line of the i-th turn of the history
LineOfTurn(i) ==
    LET t == conversation_history[i]
        r == CASE t.role = "user" -> <<"u", "s", "e", "r">>
               [] t.role = "assistant" ->
                      <<"a", "s", "s", "i", "s", "t", "a", "n", "t">>
    IN  r \o <<":", " ">> \o t.content \o <<"\n">>

\* the lines of the turns i..n of the history, in order
RECURSIVE LinesOfTurns(_, _)
LinesOfTurns(i, n) ==
    IF i > n THEN <<>> ELSE LineOfTurn(i) \o LinesOfTurns(i + 1, n)

\* C23: the context of the classification request is made of the last four
\* turns of the history (all of them when it holds fewer), in their order,
\* each as a "role: content" line; the request is issued once in a turn,
\* when routing is entered, and routing is not entered again after it.
ContextIsLastFourTurns ==
    /\ [](pc = "classify" =>
             LET n == Len(conversation_history)
                 first == IF n > 4 THEN n - 3 ELSE 1
             IN  /\ request.kind = "classify"
                 /\ request.user = user_text
                 /\ request.context = ContextHeader \o LinesOfTurns(first, n))
    /\ [][pc' = "classify" => pc = "route"]_vars
    /\ [][pc' = "route" => pc = "process"]_vars
    /\ [][pc = "classify" => pc' \in {"routed", "done"}]_vars

\* C23 witness: the classification request was issued on a history of more
\* than four turns.
ClassifiedOnLongHistory ==
    /\ pc = "classify"
    /\ Len(conversation_history) > ContextTurns
    /\ request.kind = "classify"
    /\ Len(request.context) > Len(ContextHeader)

\* the history has even length and alternates user turn, assistant turn,
\* starting with a user turn
Alternates ==
    /\ Len(conversation_history) % 2 = 0
    /\ \A i \in 1..Len(conversation_history) :
           conversation_history[i].role =
               IF i % 2 = 1 THEN "user" ELSE "assistant"

\* C24: whenever process_user_input is not in progress, also after it has
\* failed, the history has even length and alternates user turn, assistant
\* turn: a failed turn leaves no unanswered user turn.
HistoryAlternatesAtTurnBoundaries ==
    (TurnBoundary \/ (pc = "done" /\ exit = "exception")) => Alternates

\* the history holds the turns appended while the loop was running and
\* alternates: with TurnBoundary this is what holds of C24 as long as no
\* turn fails
HistoryAlternatesWhileLoopRuns == TurnBoundary => Alternates

\* C25: the history is always the last turns of the sequence of all turns
\* ever appended, in their order and with their content, and whenever
\* process_user_input is not in progress it is the last min(n, 20) of the
\* n turns appended.
HistoryIsSuffixOfAppended ==
    LET n == Len(appended)
        h == Len(conversation_history)
    IN  /\ h <= n
        /\ \A i \in 1..h : conversation_history[i] = appended[n - h + i]
        /\ TurnBoundary => h = (IF n < HistoryCap THEN n ELSE HistoryCap)

\* C25 witness: more than twenty turns were appended, turns were evicted
\* and the history starts with the twentieth turn from the end.
OldestTurnsEvicted ==
    /\ pc = "speak"
    /\ Len(appended) > HistoryCap + 2
    /\ Len(conversation_history) = HistoryCap
    /\ conversation_history[1] = appended[Len(appended) - HistoryCap + 1]
    /\ appended[1] # appended[2]

\* the last turn of a list of turns is the user turn of the utterance
EndsWithUtterance(lst) ==
    /\ lst # <<>>
    /\ lst[Len(lst)] = Turn("user", user_text)

\* C26: when the handler or the fallback conversation is invoked, the last
\* turn of the transcript it receives is the user turn of the utterance,
\* and the transcript of the handler's dependencies is the shared history
\* itself: the assistant turn appended afterwards and the cut are seen
\* through it.
HandlerReceivesSharedHistory ==
    /\ pc = "routed" => EndsWithUtterance(conversation_history)
    /\ pc = "chat" => EndsWithUtterance(request.messages)
    /\ (pc = "responded" /\ workflow # <<>>) =>
           /\ deps # NoDeps
           /\ EndsWithUtterance(ListValue(deps.conversation_history))
    /\ deps # NoDeps =>
           /\ deps.user_id = "default"
           /\ deps.conversation_history = SharedList
           /\ ListValue(deps.conversation_history) = conversation_history

\* C26 witness: a handler was run and the assistant turn appended after it
\* is the last turn of the transcript of its dependencies.
HandlerSeesAssistantTurn ==
    /\ pc = "appended"
    /\ handler.kind = "return"
    /\ deps # NoDeps
    /\ ListValue(deps.conversation_history)[Len(conversation_history)] =
           Turn("assistant", response)

=============================================================================
